---- MODULE Spec2Model ----
(***************************************************************************)
(* Model of the mmmeld timeline composition and rendering engine           *)
(* (video_utils.generate_video and the helpers it calls, and the part of    *)
(* mmmeld.main that calls it, reports the result and cleans up).           *)
(*                                                                         *)
(* Time is an integer number of microseconds, so that the arithmetic of    *)
(* the source (sums, min, max, differences) is exact and the conversion    *)
(* int(start_margin*1000) to whole milliseconds is a real truncation.      *)
(* A value that may be absent (None) is a sequence of length 0 or 1.       *)
(* A media file is a record: kind is what the file really is, ext is its   *)
(* file-name extension (the only thing the classifiers of the source look  *)
(* at), dur is the duration ffprobe reports for it and fps the frame rate  *)
(* of its video stream.                                                    *)
(* An external encoder command is an entry of the log commands: rc is      *)
(* empty while the process runs and holds its exit status afterwards.      *)
(* probes is the log of the ffprobe runs of get_media_duration: file 0 is  *)
(* the main audio, file i the i-th visual input.  A path is a record of a  *)
(* directory and a file name.  frame holds the arguments, the locals and   *)
(* the result of a helper function that is examined on its own.            *)
(***************************************************************************)
EXTENDS Integers, Sequences, FiniteSets, TLC

VARIABLES image_inputs, audio_path, bg_music_path, start_margin, end_margin,
          pc, total_duration, segs, graph, files,
          nocleanup, commands, audio_ensured, printed, exit_status, validated,
          probes, output_path, frame

vars == <<image_inputs, audio_path, bg_music_path, start_margin, end_margin,
          pc, total_duration, segs, graph, files,
          nocleanup, commands, audio_ensured, printed, exit_status, validated,
          probes, output_path, frame>>

\* what main prints and returns to the shell, and the calls of validate_video
main_vars == <<nocleanup, printed, exit_status, validated>>

----------------------------------------------------------------------------
(* Bounds and input domains *)

MaxInputs == 2

Seconds(n) == n * 1000000

Min(a, b) == IF a <= b THEN a ELSE b

Max(a, b) == IF a >= b THEN a ELSE b

VideoDurations == {Seconds(3), Seconds(4), Seconds(10), Seconds(30)}

FrameRates == {30, 60}

Videos == [kind : {"video"}, ext : {"mp4"}, dur : VideoDurations, fps : FrameRates]

\* a still picture decodes to one frame; ffmpeg reads it at 25 frames/second
Images == [kind : {"image"}, ext : {"png", "webp"}, dur : {0}, fps : {25}]

AudioFiles ==
    [kind : {"audio"}, ext : {"mp3"}, dur : {Seconds(5), Seconds(10), Seconds(20)}, fps : {0}]
    \cup {[kind |-> "audio", ext |-> "opus", dur |-> Seconds(20), fps |-> 0],
          [kind |-> "audio", ext |-> "m4a", dur |-> Seconds(10), fps |-> 0]}

BgMusicFiles == {[kind |-> "audio", ext |-> "mp3", dur |-> Seconds(4), fps |-> 0]}

\* <<start_margin, end_margin>>, both non-negative: the default 0.5,2.0
\* (config.py:75), no margins, and 0.0005,1.9995 whose start margin is not a
\* whole number of milliseconds
MarginPairs == {<<500000, 2000000>>, <<0, 0>>, <<500, 1999500>>}

VisualInputLists == UNION {[1..n -> Videos \cup Images] : n \in 1..MaxInputs}

\* the directory main runs in
Cwd == "/work"

TEMP_ASSETS_FOLDER == "temp_assets"

\* the same folder named by its absolute path
AbsoluteTempFolder == "/work/temp_assets"

\* args.output, or the default output path in the current directory
OutputPaths ==
    [dir : {"", Cwd, "videos", TEMP_ASSETS_FOLDER, AbsoluteTempFolder},
     name : {"out.mp4"}]

DefaultOutput == [dir |-> "", name |-> "out.mp4"]

\* Path(output_path).parent == TEMP_ASSETS_FOLDER: a comparison of the
\* spelling of the parent with the relative path temp_assets
ParentIsTempFolder(path) == path.dir = TEMP_ASSETS_FOLDER

\* the file is one of those TEMP_ASSETS_FOLDER.iterdir() lists
InTempFolder(path) == path.dir \in {TEMP_ASSETS_FOLDER, AbsoluteTempFolder}

----------------------------------------------------------------------------
(* Classification by extension *)

audio_extensions == {"mp3", "wav", "aac", "flac", "ogg"}

video_extensions == {"mp4", "avi", "mov", "mkv", "webm", "mpeg", "mpg", "m4v"}

image_extensions == {"jpg", "jpeg", "png", "bmp", "gif", "tiff"}

is_audio(f) == f.ext \in audio_extensions

is_video(f) == f.ext \in video_extensions

is_image(f) == f.ext \in image_extensions

ImageDuration == 5000000

MinTotalDuration == 5000000

ImageTrimDuration == 5000000

LoopFrameRate == 30

\* ffprobe's format=duration
get_audio_duration(f) == f.dur

get_media_duration(f) ==
    IF ~is_video(f)
    THEN IF is_audio(f) THEN get_audio_duration(f) ELSE ImageDuration
    ELSE f.dur

\* get_media_duration runs ffprobe for this file
Probed(f) == is_video(f) \/ is_audio(f)

\* the files calculate_total_duration probes, in the order it probes them
ProbeOrder(main_audio_path, inputs) ==
    IF main_audio_path # <<>>
    THEN IF Probed(main_audio_path[1]) THEN <<0>> ELSE <<>>
    ELSE SelectSeq([i \in 1..Len(inputs) |-> i], LAMBDA i : Probed(inputs[i]))

\* log entries of probes that all went well
ProbesOk(order) == [k \in 1..Len(order) |-> [file |-> order[k], ok |-> TRUE]]

RECURSIVE SumDurations(_)
SumDurations(inputs) ==
    IF inputs = <<>> THEN 0
    ELSE get_media_duration(Head(inputs)) + SumDurations(Tail(inputs))

\* variant that applies the margins in the branch without main audio too
calculate_total_duration_with_margins(main_audio_path, inputs, sm, em) ==
    IF main_audio_path # <<>>
    THEN get_media_duration(main_audio_path[1]) + sm + em
    ELSE Max(SumDurations(inputs), MinTotalDuration) + sm + em

calculate_total_duration(main_audio_path, inputs, sm, em) ==
    IF main_audio_path # <<>>
    THEN get_media_duration(main_audio_path[1]) + sm + em
    ELSE Max(SumDurations(inputs), MinTotalDuration)

----------------------------------------------------------------------------
(* The temporary visual sequence: one filter chain per input *)

\* body of the loop of create_visual_sequence for input number i
SequenceChain(i, f, total, has_main_audio) ==
    LET duration == get_media_duration(f)
        trim_duration == IF has_main_audio THEN Min(duration, total)
                         ELSE IF is_video(f) THEN duration ELSE ImageTrimDuration
    IN  [src |-> i,
         chain |-> IF is_image(f) THEN "image" ELSE "video",
         trim |-> trim_duration]

\* length of the stream a file offers to a chain that does not loop it
NaturalLength(f) == IF f.kind = "image" THEN 1000000 \div f.fps ELSE f.dur

\* what one chain contributes to the concatenation: the image chain loops
\* the still frame forever and trims it, the video chain trims the stream
ChainLength(seg, inputs) ==
    IF seg.chain = "image" THEN seg.trim
    ELSE Min(seg.trim, NaturalLength(inputs[seg.src]))

\* a track is a sequence of pieces; each piece shows input src from its
\* beginning for len microseconds
SequencePieces(ss, inputs) ==
    [k \in 1..Len(ss) |-> [src |-> ss[k].src, len |-> ChainLength(ss[k], inputs)]]

RECURSIVE TrackLength(_)
TrackLength(track) ==
    IF track = <<>> THEN 0 ELSE Head(track).len + TrackLength(Tail(track))

\* trim=duration=L / -t L : keep the first L microseconds of a track
RECURSIVE TrimTrack(_, _)
TrimTrack(track, L) ==
    IF track = <<>> \/ L <= 0 THEN <<>>
    ELSE IF Head(track).len = 0 THEN TrimTrack(Tail(track), L)
    ELSE IF Head(track).len >= L THEN <<[src |-> Head(track).src, len |-> L]>>
    ELSE <<Head(track)>> \o TrimTrack(Tail(track), L - Head(track).len)

\* loop=-1 followed by trim=duration=L : the buffered frames again and again
RECURSIVE LoopTrack(_, _)
LoopTrack(buffer, L) ==
    IF L <= 0 \/ TrackLength(buffer) = 0 THEN <<>>
    ELSE IF TrackLength(buffer) >= L THEN TrimTrack(buffer, L)
    ELSE TrimTrack(buffer, TrackLength(buffer)) \o LoopTrack(buffer, L - TrackLength(buffer))

\* frame rate of temp_video_sequence.mkv: that of the first concatenated input
SequenceFrameRate(inputs) == inputs[1].fps

----------------------------------------------------------------------------
(* The final filter graph *)

EmptyGraph ==
    [adelay |-> <<>>, apad |-> <<>>, loop_size |-> <<>>, vtrim |-> <<>>,
     aloop |-> FALSE, vfade |-> <<>>, mix |-> "", afade |-> <<>>, map |-> <<>>,
     t |-> <<>>]

\* generate_video, from the filter list to the -t option
FinalGraph(main_audio_path, bg, total, sm, em) ==
    [adelay    |-> IF main_audio_path # <<>> THEN <<sm \div 1000, sm \div 1000>> ELSE <<>>,
     apad      |-> IF main_audio_path # <<>> THEN <<em>> ELSE <<>>,
     loop_size |-> IF main_audio_path # <<>> THEN <<(total * LoopFrameRate) \div 1000000>> ELSE <<>>,
     vtrim     |-> IF main_audio_path # <<>> THEN <<total>> ELSE <<>>,
     aloop     |-> bg # <<>>,
     vfade     |-> IF main_audio_path # <<>> THEN <<total - em, em>> ELSE <<>>,
     mix       |-> IF main_audio_path # <<>> /\ bg # <<>> THEN "main+bg"
                   ELSE IF main_audio_path # <<>> THEN "main"
                   ELSE IF bg # <<>> THEN "sequence+bg"
                   ELSE "sequence",
     afade     |-> <<total - em, em>>,
     map       |-> <<"[faded_video]", "[faded_audio]">>,
     t         |-> <<total>>]

\* the frames the loop filter buffers: the first loop_size frames of its input
LoopBuffer(track, size, fps) == TrimTrack(track, (size * 1000000) \div fps)

\* the picture of the rendered output, from the sequence and the graph
VisualTrack(g, ss, inputs) ==
    LET sequence == SequencePieces(ss, inputs)
    IN  IF g.t = <<>> THEN <<>>
        ELSE IF g.loop_size # <<>> /\ g.loop_size[1] > 0
        THEN TrimTrack(LoopTrack(LoopBuffer(sequence, g.loop_size[1], SequenceFrameRate(inputs)),
                                 g.vtrim[1]), g.t[1])
        ELSE IF g.vtrim # <<>>
        THEN TrimTrack(TrimTrack(sequence, g.vtrim[1]), g.t[1])
        ELSE TrimTrack(sequence, g.t[1])

\* length of temp_audio_sequence.wav: silence of the trim duration for an
\* image chain, the input's own sound cut at the trim duration otherwise
AudioSequenceLength(ss, inputs) == TrackLength(SequencePieces(ss, inputs))

\* [main_audio]: the main audio delayed by adelay and padded by apad
MainTrackLength(g, main_audio_path) ==
    g.adelay[1] * 1000 + main_audio_path[1].dur + g.apad[1]

\* [final_audio]: amix with duration=first lasts as long as its first input,
\* acopy as long as its only one
MixLength(g, main_audio_path, ss, inputs) ==
    IF g.mix \in {"main+bg", "main"} THEN MainTrackLength(g, main_audio_path)
    ELSE AudioSequenceLength(ss, inputs)

\* the sound of the rendered output: the mix, cut by -t
AudioLength(g, main_audio_path, ss, inputs) ==
    Min(MixLength(g, main_audio_path, ss, inputs), g.t[1])

\* [bg_music] as far as it is heard: aloop=-1 repeats the whole music without
\* end, the mix and -t cut it; piece k is the k-th repetition
BackgroundTrack(g, bg, main_audio_path, ss, inputs) ==
    IF g.aloop
    THEN LoopTrack(<<[src |-> 0, len |-> bg[1].dur]>>,
                   AudioLength(g, main_audio_path, ss, inputs))
    ELSE <<>>

----------------------------------------------------------------------------
(* State machine of one invocation: main calls generate_video, reports and *)
(* cleans up                                                               *)

Init ==
    /\ image_inputs \in VisualInputLists
    /\ audio_path \in {<<>>} \cup {<<a>> : a \in AudioFiles}
    /\ bg_music_path \in {<<>>} \cup {<<b>> : b \in BgMusicFiles}
    /\ \E m \in MarginPairs : start_margin = m[1] /\ end_margin = m[2]
    /\ nocleanup \in BOOLEAN
    /\ pc = "start"
    /\ total_duration = <<>>
    /\ segs = <<>>
    /\ graph = EmptyGraph
    /\ files = {}
    /\ commands = <<>>
    /\ audio_ensured = {}
    /\ printed = {}
    /\ exit_status = <<>>
    /\ validated = <<>>
    /\ probes = <<>> /\ output_path = DefaultOutput /\ frame = <<>>

NeedsConversion == audio_path # <<>> /\ audio_path[1].ext = "m4a"

\* the encoder command each stage of generate_video runs
CommandAt(stage) ==
    CASE stage = "start" -> "convert_m4a"
      [] stage = "sequence" -> "ensure_audio"
      [] stage = "video_cmd" -> "video_cmd"
      [] stage = "audio_cmd" -> "audio_cmd"
      [] stage = "final" -> "final_cmd"

\* run_ffmpeg_command is between Popen and the return of process.wait()
Waiting == commands # <<>> /\ commands[Len(commands)].rc = <<>>

\* process.wait() returned rc for the command that was started last
Exited(rc) == [commands EXCEPT ![Len(commands)].rc = <<rc>>]

\* variant that starts a process without waiting for the one before it
Popen_without_wait ==
    /\ \/ pc = "start" /\ NeedsConversion
       \/ pc = "sequence" /\ Len(segs) < Len(image_inputs)
       \/ pc \in {"video_cmd", "audio_cmd", "final"}
    /\ commands' = Append(commands, [cmd |-> CommandAt(pc), rc |-> <<>>])
    /\ UNCHANGED <<probes, output_path, frame>>
    /\ UNCHANGED <<image_inputs, audio_path, bg_music_path, start_margin, end_margin,
                   pc, total_duration, segs, graph, files, audio_ensured, main_vars>>

\* run_ffmpeg_command starts the command of the current stage
Popen ==
    /\ ~Waiting
    /\ \/ pc = "start" /\ NeedsConversion
       \/ pc = "sequence" /\ Len(segs) < Len(image_inputs)
       \/ pc \in {"video_cmd", "audio_cmd", "final"}
    /\ commands' = Append(commands, [cmd |-> CommandAt(pc), rc |-> <<>>])
    /\ UNCHANGED <<probes, output_path, frame>>
    /\ UNCHANGED <<image_inputs, audio_path, bg_music_path, start_margin, end_margin,
                   pc, total_duration, segs, graph, files, audio_ensured, main_vars>>

\* no .m4a main audio: nothing to convert
Prologue ==
    /\ pc = "start"
    /\ ~NeedsConversion
    /\ pc' = "duration"
    /\ UNCHANGED <<probes, output_path, frame>>
    /\ UNCHANGED <<image_inputs, audio_path, bg_music_path, start_margin, end_margin,
                   total_duration, segs, graph, files, commands, audio_ensured, main_vars>>

\* convert_m4a_to_wav succeeded: the main audio is now converted_audio.wav
ConvertM4aOk ==
    /\ pc = "start"
    /\ NeedsConversion
    /\ Waiting
    /\ commands' = Exited(0)
    /\ audio_path' = <<[audio_path[1] EXCEPT !.ext = "wav"]>>
    /\ files' = files \cup {"converted_audio.wav"}
    /\ pc' = "duration"
    /\ UNCHANGED <<probes, output_path, frame>>
    /\ UNCHANGED <<image_inputs, bg_music_path, start_margin, end_margin,
                   total_duration, segs, graph, audio_ensured, main_vars>>

\* the conversion command exited non-zero: run_ffmpeg_command raises
ConvertM4aFail ==
    /\ pc = "start"
    /\ NeedsConversion
    /\ Waiting
    /\ commands' = Exited(1)
    /\ pc' = "raised"
    /\ UNCHANGED <<probes, output_path, frame>>
    /\ UNCHANGED <<image_inputs, audio_path, bg_music_path, start_margin, end_margin,
                   total_duration, segs, graph, files, audio_ensured, main_vars>>

\* every probe of calculate_total_duration printed a duration
CalculateTotalDuration ==
    /\ pc = "duration"
    /\ total_duration' = <<calculate_total_duration(audio_path, image_inputs,
                                                    start_margin, end_margin)>>
    /\ probes' = probes \o ProbesOk(ProbeOrder(audio_path, image_inputs))
    /\ pc' = "sequence"
    /\ UNCHANGED <<output_path, frame>>
    /\ UNCHANGED <<image_inputs, audio_path, bg_music_path, start_margin, end_margin,
                   segs, graph, files, commands, audio_ensured, main_vars>>

\* ffprobe exits non-zero or prints no duration for the n-th file that
\* calculate_total_duration probes: get_media_duration raises
CalculateTotalDurationFail ==
    /\ pc = "duration"
    /\ LET order == ProbeOrder(audio_path, image_inputs)
       IN  \E n \in 1..Len(order) :
              probes' = probes \o ProbesOk(SubSeq(order, 1, n - 1))
                               \o <<[file |-> order[n], ok |-> FALSE]>>
    /\ pc' = "raised"
    /\ UNCHANGED <<output_path, frame>>
    /\ UNCHANGED <<image_inputs, audio_path, bg_music_path, start_margin, end_margin,
                   total_duration, segs, graph, files, commands, audio_ensured, main_vars>>

\* one iteration of the loop of create_visual_sequence; after the last one
\* the two concat filters are appended and the video command is next.
\* ensure_video_has_audio either found audio packets in a video and ran no
\* command, or its command wrote audio_ensured_<name> and exited with 0;
\* the probe of the file's duration went well
SequenceInput ==
    /\ pc = "sequence"
    /\ Len(segs) < Len(image_inputs)
    /\ LET i == Len(segs) + 1
       IN  /\ \/ /\ Waiting
                 /\ commands' = Exited(0)
                 /\ audio_ensured' = audio_ensured \cup {i}
              \/ /\ ~Waiting
                 /\ image_inputs[i].kind = "video"
                 /\ UNCHANGED <<probes, output_path, frame>>
                 /\ UNCHANGED <<commands, audio_ensured>>
           /\ probes' = IF Probed(image_inputs[i])
                        THEN Append(probes, [file |-> i, ok |-> TRUE])
                        ELSE probes
           /\ segs' = Append(segs, SequenceChain(i, image_inputs[i], total_duration[1],
                                                 audio_path # <<>>))
    /\ pc' = IF Len(segs) + 1 = Len(image_inputs) THEN "video_cmd" ELSE "sequence"
    /\ UNCHANGED <<output_path, frame>>
    /\ UNCHANGED <<image_inputs, audio_path, bg_music_path, start_margin, end_margin,
                   total_duration, graph, files, main_vars>>

\* variant in which a failed probe is logged and the fixed default duration
\* is used instead
SequenceProbeFail_defaulted ==
    /\ pc = "sequence"
    /\ Len(segs) < Len(image_inputs)
    /\ LET i == Len(segs) + 1
       IN  /\ Probed(image_inputs[i])
           /\ \/ /\ Waiting
                 /\ commands' = Exited(0)
                 /\ audio_ensured' = audio_ensured \cup {i}
              \/ /\ ~Waiting
                 /\ image_inputs[i].kind = "video"
                 /\ UNCHANGED <<commands, audio_ensured>>
           /\ probes' = Append(probes, [file |-> i, ok |-> FALSE])
           /\ segs' = Append(segs, [src |-> i, chain |-> "video", trim |-> ImageDuration])
    /\ pc' = IF Len(segs) + 1 = Len(image_inputs) THEN "video_cmd" ELSE "sequence"
    /\ UNCHANGED <<output_path, frame>>
    /\ UNCHANGED <<image_inputs, audio_path, bg_music_path, start_margin, end_margin,
                   total_duration, graph, files, main_vars>>

\* the same iteration when ffprobe exits non-zero or prints no duration for
\* the file: get_media_duration raises out of create_visual_sequence
SequenceProbeFail ==
    /\ pc = "sequence"
    /\ Len(segs) < Len(image_inputs)
    /\ LET i == Len(segs) + 1
       IN  /\ Probed(image_inputs[i])
           /\ \/ /\ Waiting
                 /\ commands' = Exited(0)
                 /\ audio_ensured' = audio_ensured \cup {i}
              \/ /\ ~Waiting
                 /\ image_inputs[i].kind = "video"
                 /\ UNCHANGED <<commands, audio_ensured>>
           /\ probes' = Append(probes, [file |-> i, ok |-> FALSE])
    /\ pc' = "raised"
    /\ UNCHANGED <<output_path, frame>>
    /\ UNCHANGED <<image_inputs, audio_path, bg_music_path, start_margin, end_margin,
                   total_duration, segs, graph, files, main_vars>>

\* ensure_video_has_audio ran ffmpeg for this input and it exited non-zero
SequenceInputFail ==
    /\ pc = "sequence"
    /\ Len(segs) < Len(image_inputs)
    /\ Waiting
    /\ commands' = Exited(1)
    /\ pc' = "raised"
    /\ UNCHANGED <<probes, output_path, frame>>
    /\ UNCHANGED <<image_inputs, audio_path, bg_music_path, start_margin, end_margin,
                   total_duration, segs, graph, files, audio_ensured, main_vars>>

EncodeVideoOk ==
    /\ pc = "video_cmd"
    /\ Waiting
    /\ commands' = Exited(0)
    /\ files' = files \cup {"temp_video_sequence.mkv"}
    /\ pc' = "audio_cmd"
    /\ UNCHANGED <<probes, output_path, frame>>
    /\ UNCHANGED <<image_inputs, audio_path, bg_music_path, start_margin, end_margin,
                   total_duration, segs, graph, audio_ensured, main_vars>>

\* variant that logs the failure of the video command and carries on
EncodeVideoFail_swallowed ==
    /\ pc = "video_cmd"
    /\ Waiting
    /\ commands' = Exited(1)
    /\ pc' = "audio_cmd"
    /\ UNCHANGED <<probes, output_path, frame>>
    /\ UNCHANGED <<image_inputs, audio_path, bg_music_path, start_margin, end_margin,
                   total_duration, segs, graph, files, audio_ensured, main_vars>>

EncodeVideoFail ==
    /\ pc = "video_cmd"
    /\ Waiting
    /\ commands' = Exited(1)
    /\ pc' = "raised"
    /\ UNCHANGED <<probes, output_path, frame>>
    /\ UNCHANGED <<image_inputs, audio_path, bg_music_path, start_margin, end_margin,
                   total_duration, segs, graph, files, audio_ensured, main_vars>>

EncodeAudioOk ==
    /\ pc = "audio_cmd"
    /\ Waiting
    /\ commands' = Exited(0)
    /\ files' = files \cup {"temp_audio_sequence.wav"}
    /\ pc' = "final"
    /\ UNCHANGED <<probes, output_path, frame>>
    /\ UNCHANGED <<image_inputs, audio_path, bg_music_path, start_margin, end_margin,
                   total_duration, segs, graph, audio_ensured, main_vars>>

EncodeAudioFail ==
    /\ pc = "audio_cmd"
    /\ Waiting
    /\ commands' = Exited(1)
    /\ pc' = "raised"
    /\ UNCHANGED <<probes, output_path, frame>>
    /\ UNCHANGED <<image_inputs, audio_path, bg_music_path, start_margin, end_margin,
                   total_duration, segs, graph, files, audio_ensured, main_vars>>

\* the final command succeeded; the two temporary sequences are removed and
\* generate_video returns True
FinalRenderOk ==
    /\ pc = "final"
    /\ Waiting
    /\ commands' = Exited(0)
    /\ graph' = FinalGraph(audio_path, bg_music_path, total_duration[1],
                           start_margin, end_margin)
    /\ files' = (files \ {"temp_video_sequence.mkv", "temp_audio_sequence.wav"})
                \cup {"output"}
    /\ pc' = "done"
    /\ UNCHANGED <<probes, output_path, frame>>
    /\ UNCHANGED <<image_inputs, audio_path, bg_music_path, start_margin, end_margin,
                   total_duration, segs, audio_ensured, main_vars>>

\* the final command exited non-zero; whatever ffmpeg had written to
\* output_path by then stays there
FinalRenderFail ==
    /\ pc = "final"
    /\ Waiting
    /\ commands' = Exited(1)
    /\ graph' = FinalGraph(audio_path, bg_music_path, total_duration[1],
                           start_margin, end_margin)
    /\ \E written \in BOOLEAN :
          files' = IF written THEN files \cup {"output.partial"} ELSE files
    /\ pc' = "raised"
    /\ UNCHANGED <<probes, output_path, frame>>
    /\ UNCHANGED <<image_inputs, audio_path, bg_music_path, start_margin, end_margin,
                   total_duration, segs, audio_ensured, main_vars>>

\* main: generate_video returned True
ReportSuccess ==
    /\ pc = "done"
    /\ printed' = printed \cup {"Video created successfully"}
    /\ pc' = "cleanup"
    /\ UNCHANGED <<probes, output_path, frame>>
    /\ UNCHANGED <<image_inputs, audio_path, bg_music_path, start_margin, end_margin,
                   total_duration, segs, graph, files, commands, audio_ensured,
                   nocleanup, exit_status, validated>>

\* main without --nocleanup: every file of the temp folder is unlinked
Cleanup ==
    /\ pc = "cleanup"
    /\ ~nocleanup
    /\ printed' = printed \cup {"Cleaning up temporary files..."}
    /\ files' = IF InTempFolder(output_path) THEN {} ELSE files \cap {"output"}
    /\ audio_ensured' = {}
    /\ exit_status' = <<0>>
    /\ pc' = "exit"
    /\ UNCHANGED <<probes, output_path, frame>>
    /\ UNCHANGED <<image_inputs, audio_path, bg_music_path, start_margin, end_margin,
                   total_duration, segs, graph, commands, nocleanup, validated>>

\* main with --nocleanup: the temp folder is listed and left as it is
KeepTemporaryFiles ==
    /\ pc = "cleanup"
    /\ nocleanup
    /\ printed' = printed \cup {"Temporary files were not cleaned up."}
    /\ exit_status' = <<0>>
    /\ pc' = "exit"
    /\ UNCHANGED <<probes, output_path, frame>>
    /\ UNCHANGED <<image_inputs, audio_path, bg_music_path, start_margin, end_margin,
                   total_duration, segs, graph, files, commands, audio_ensured,
                   nocleanup, validated>>

\* main: the except branch logs the exception and exits with status 1
HandleException ==
    /\ pc = "raised"
    /\ printed' = printed \cup {"An error occurred"}
    /\ exit_status' = <<1>>
    /\ pc' = "exit"
    /\ UNCHANGED <<probes, output_path, frame>>
    /\ UNCHANGED <<image_inputs, audio_path, bg_music_path, start_margin, end_margin,
                   total_duration, segs, graph, files, commands, audio_ensured,
                   nocleanup, validated>>

Next ==
    \/ Popen
    \/ Prologue
    \/ ConvertM4aOk
    \/ ConvertM4aFail
    \/ CalculateTotalDuration
    \/ CalculateTotalDurationFail
    \/ SequenceInput
    \/ SequenceProbeFail
    \/ SequenceInputFail
    \/ EncodeVideoOk
    \/ EncodeVideoFail
    \/ EncodeAudioOk
    \/ EncodeAudioFail
    \/ FinalRenderOk
    \/ FinalRenderFail
    \/ ReportSuccess
    \/ Cleanup
    \/ KeepTemporaryFiles
    \/ HandleException

Spec == Init /\ [][Next]_vars

TypeOK ==
    /\ pc \in {"start", "duration", "sequence", "video_cmd", "audio_cmd", "final",
               "done", "raised", "cleanup", "exit"}
    /\ Len(segs) <= Len(image_inputs)
    /\ Len(total_duration) <= 1
    /\ (pc \in {"sequence", "video_cmd", "audio_cmd", "final", "done"}) => total_duration # <<>>
    /\ (graph # EmptyGraph) => Len(segs) = Len(image_inputs)
    /\ audio_ensured \subseteq 1..Len(image_inputs)
    /\ Len(exit_status) <= 1
    /\ (pc = "exit") <=> (exit_status # <<>>)

----------------------------------------------------------------------------
(* The output path: main takes it from the command line, moves it out of   *)
(* the temp folder and hands it to generate_video                          *)

InitOutput ==
    /\ image_inputs \in {<<f>> : f \in Videos \cup Images}
    /\ audio_path \in {<<>>} \cup {<<a>> : a \in {b \in AudioFiles : b.ext = "m4a"}}
    /\ bg_music_path = <<>>
    /\ start_margin = 500000 /\ end_margin = 2000000
    /\ nocleanup \in BOOLEAN
    /\ output_path \in OutputPaths
    /\ pc = "output"
    /\ total_duration = <<>> /\ segs = <<>> /\ graph = EmptyGraph /\ files = {}
    /\ commands = <<>> /\ audio_ensured = {} /\ printed = {} /\ exit_status = <<>>
    /\ validated = <<>> /\ probes = <<>> /\ frame = <<>>

\* main: "Ensure output_path is not in TEMP_ASSETS_FOLDER"
ResolveOutputPath ==
    /\ pc = "output"
    /\ output_path' = IF ParentIsTempFolder(output_path)
                      THEN [dir |-> Cwd, name |-> output_path.name]
                      ELSE output_path
    /\ pc' = "start"
    /\ UNCHANGED <<image_inputs, audio_path, bg_music_path, start_margin, end_margin,
                   total_duration, segs, graph, files, nocleanup, commands,
                   audio_ensured, printed, exit_status, validated, probes, frame>>

NextOutput ==
    \/ ResolveOutputPath
    \/ Next

SpecOutput == InitOutput /\ [][NextOutput]_vars

----------------------------------------------------------------------------
(* The visual inputs: main takes the elements of args.image, acquires a    *)
(* file for each (get_image_inputs) and hands the list to generate_video.  *)
(* An element of args.image is a record of its kind and of what the helper *)
(* that acquires it does; frame.image is the part of args.image not yet    *)
(* processed.                                                              *)

\* the value None in a list of paths
NoneValue == [kind |-> "None", ext |-> "", dur |-> 0, fps |-> 0]

GeneratedImage == [kind |-> "image", ext |-> "png", dur |-> 0, fps |-> 25]

DownloadedVideo == [kind |-> "video", ext |-> "mp4", dur |-> Seconds(30), fps |-> 30]

\* a path at which there is no file
MissingFile == [kind |-> "missing", ext |-> "png", dur |-> 0, fps |-> 0]

\* "generate": generate_image returns a path, returns None or raises;
\* a YouTube address: download_youtube_video returns a path or None;
\* another address: download_image returns a path or raises ValueError;
\* anything else is taken as the path of a local file, there or not
ImageArguments ==
    [kind : {"generate"}, outcome : {"path", "None", "raise"}]
    \cup [kind : {"youtube"}, outcome : {"path", "None"}]
    \cup [kind : {"http"}, outcome : {"path", "raise"}]
    \cup [kind : {"local"}, outcome : {"path", "missing"}]

ImageArgumentLists == UNION {[1..n -> ImageArguments] : n \in 1..MaxInputs}

\* what one iteration of the loop of get_image_inputs appends for an element
Acquired(arg) ==
    CASE arg.outcome = "raise" -> <<>>
      [] arg.outcome = "None" -> <<NoneValue>>
      [] arg.outcome = "missing" -> <<MissingFile>>
      [] arg.outcome = "path" ->
            <<IF arg.kind = "youtube" THEN DownloadedVideo ELSE GeneratedImage>>

InitInputs ==
    /\ \/ \E args \in ImageArgumentLists : frame = [image |-> args, autofill |-> FALSE]
       \/ frame = [image |-> <<>>, autofill |-> TRUE]
    /\ image_inputs = <<>>
    /\ pc = "get_image_inputs"
    /\ audio_path \in {<<>>} \cup {<<a>> : a \in {b \in AudioFiles : b.ext = "mp3"}}
    /\ bg_music_path = <<>>
    /\ start_margin = 500000 /\ end_margin = 2000000 /\ nocleanup = FALSE
    /\ total_duration = <<>> /\ segs = <<>> /\ graph = EmptyGraph /\ files = {}
    /\ commands = <<>> /\ audio_ensured = {} /\ printed = {} /\ exit_status = <<>>
    /\ validated = <<>> /\ probes = <<>> /\ output_path = DefaultOutput

\* get_image_inputs with args.image: one iteration of the loop; an
\* exception of the helper is logged and the element is skipped
AcquireInput ==
    /\ pc = "get_image_inputs"
    /\ frame.image # <<>>
    /\ image_inputs' = image_inputs \o Acquired(Head(frame.image))
    /\ frame' = [frame EXCEPT !.image = Tail(@)]
    /\ UNCHANGED <<audio_path, bg_music_path, start_margin, end_margin, pc,
                   total_duration, segs, graph, files, nocleanup, commands,
                   audio_ensured, printed, exit_status, validated, probes, output_path>>

\* get_image_inputs without args.image under autofill: the result of
\* generate_image becomes the only element; nothing catches an exception
AutofillImage ==
    /\ pc = "get_image_inputs"
    /\ frame.autofill
    /\ \E outcome \in {"path", "None", "raise"} :
          IF outcome = "raise"
          THEN pc' = "raised" /\ UNCHANGED image_inputs
          ELSE /\ image_inputs' = Acquired([kind |-> "generate", outcome |-> outcome])
               /\ pc' = "abspath"
    /\ frame' = [frame EXCEPT !.autofill = FALSE]
    /\ UNCHANGED <<audio_path, bg_music_path, start_margin, end_margin,
                   total_duration, segs, graph, files, nocleanup, commands,
                   audio_ensured, printed, exit_status, validated, probes, output_path>>

\* get_image_inputs returns the list
ReturnImageInputs ==
    /\ pc = "get_image_inputs"
    /\ frame.image = <<>> /\ ~frame.autofill
    /\ pc' = "abspath"
    /\ UNCHANGED <<image_inputs, audio_path, bg_music_path, start_margin, end_margin,
                   total_duration, segs, graph, files, nocleanup, commands,
                   audio_ensured, printed, exit_status, validated, probes, output_path,
                   frame>>

\* main: os.path.abspath(path) if os.path.exists(path) else path, for every
\* element; os.path.exists(None) raises TypeError
AbsolutePaths ==
    /\ pc = "abspath"
    /\ pc' = IF \E k \in 1..Len(image_inputs) : image_inputs[k] = NoneValue THEN "raised"
             ELSE IF image_inputs = <<>> THEN "default_image"
             ELSE "start"
    /\ UNCHANGED <<image_inputs, audio_path, bg_music_path, start_margin, end_margin,
                   total_duration, segs, graph, files, nocleanup, commands,
                   audio_ensured, printed, exit_status, validated, probes, output_path,
                   frame>>

\* main: "No valid image inputs provided. Using a default image.", or
\* sys.exit(1) when that image cannot be generated
DefaultImage ==
    /\ pc = "default_image"
    /\ \E outcome \in {"path", "None", "raise"} :
          CASE outcome = "path" ->
                  /\ image_inputs' = <<GeneratedImage>>
                  /\ pc' = "start"
                  /\ UNCHANGED <<printed, exit_status>>
            [] outcome = "None" ->
                  /\ printed' = printed \cup {"Failed to generate a default image. Exiting."}
                  /\ exit_status' = <<1>>
                  /\ pc' = "exit"
                  /\ UNCHANGED image_inputs
            [] outcome = "raise" ->
                  /\ pc' = "raised"
                  /\ UNCHANGED <<image_inputs, printed, exit_status>>
    /\ UNCHANGED <<audio_path, bg_music_path, start_margin, end_margin,
                   total_duration, segs, graph, files, nocleanup, commands,
                   audio_ensured, validated, probes, output_path, frame>>

\* up to the call of generate_video, whose first state is pc = "start"
NextInputs ==
    \/ AcquireInput
    \/ AutofillImage
    \/ ReturnImageInputs
    \/ AbsolutePaths
    \/ DefaultImage
    \/ HandleException

SpecInputs == InitInputs /\ [][NextInputs]_vars

----------------------------------------------------------------------------
(* validate_video on its own: the arguments of a call are drawn in the     *)
(* initial state and the one action applies the function to them           *)

Abs(x) == IF x >= 0 THEN x ELSE 0 - x

ValidationTolerance == 500000

\* what the two ffprobe calls report of an output file: its duration and the
\* number of packets of its audio stream (nothing is printed when the file
\* has no audio stream)
ProbedOutputs ==
    [duration : {4400000, 4500000, 5000000, 5500000, 5600000, 7500000},
     audio_packets : {<<>>, <<0>>, <<215>>}]

ExpectedDurations == {5000000, 7500000}

\* "True" and "False" are the values returned; int('') raises ValueError
validate_video(output, expected_duration, has_audio) ==
    IF Abs(output.duration - expected_duration) > ValidationTolerance THEN "False"
    ELSE IF has_audio
         THEN IF output.audio_packets = <<>> THEN "ValueError"
              ELSE IF output.audio_packets[1] = 0 THEN "False"
              ELSE "True"
         ELSE "True"

InitValidate ==
    /\ \E o \in ProbedOutputs, e \in ExpectedDurations, h \in BOOLEAN :
          validated = <<[output |-> o, expected_duration |-> e, has_audio |-> h,
                         result |-> "pending"]>>
    /\ pc = "validate"
    /\ image_inputs = <<>> /\ audio_path = <<>> /\ bg_music_path = <<>>
    /\ start_margin = 0 /\ end_margin = 0 /\ nocleanup = FALSE
    /\ total_duration = <<>> /\ segs = <<>> /\ graph = EmptyGraph /\ files = {}
    /\ commands = <<>> /\ audio_ensured = {} /\ printed = {} /\ exit_status = <<>>
    /\ probes = <<>> /\ output_path = DefaultOutput /\ frame = <<>>

ValidateVideo ==
    /\ pc = "validate"
    /\ validated' = <<[validated[1] EXCEPT
                         !.result = validate_video(validated[1].output,
                                                   validated[1].expected_duration,
                                                   validated[1].has_audio)]>>
    /\ pc' = "validated"
    /\ UNCHANGED <<probes, output_path, frame>>
    /\ UNCHANGED <<image_inputs, audio_path, bg_music_path, start_margin, end_margin,
                   total_duration, segs, graph, files, commands, audio_ensured,
                   nocleanup, printed, exit_status>>

NextValidate == ValidateVideo

SpecValidate == InitValidate /\ [][NextValidate]_vars

----------------------------------------------------------------------------
(* calculate_total_duration on its own: the arguments are drawn in the     *)
(* initial state, the empty list of inputs and a main audio shorter than   *)
(* five seconds included; the result can be fed back as one video          *)

DurationInputLists == UNION {[1..n -> Videos \cup Images] : n \in 0..MaxInputs}

DurationAudioFiles ==
    AudioFiles \cup {[kind |-> "audio", ext |-> "mp3", dur |-> Seconds(3), fps |-> 0]}

\* a rendered output of the given duration, an .mp4 file at 30 frames/second
RenderedOutput(duration) ==
    [kind |-> "video", ext |-> "mp4", dur |-> duration, fps |-> LoopFrameRate]

InitDuration ==
    /\ image_inputs \in DurationInputLists
    /\ audio_path \in {<<>>} \cup {<<a>> : a \in DurationAudioFiles}
    /\ \E m \in MarginPairs : start_margin = m[1] /\ end_margin = m[2]
    /\ pc = "duration"
    /\ bg_music_path = <<>> /\ nocleanup = FALSE
    /\ total_duration = <<>> /\ segs = <<>> /\ graph = EmptyGraph /\ files = {}
    /\ commands = <<>> /\ audio_ensured = {} /\ printed = {} /\ exit_status = <<>>
    /\ validated = <<>>
    /\ probes = <<>> /\ output_path = DefaultOutput /\ frame = <<>>

\* calculate_total_duration(None, [output], start_margin, end_margin) for an
\* output whose duration is the total duration computed before
FeedBack ==
    /\ pc = "sequence"
    /\ image_inputs' = <<RenderedOutput(total_duration[1])>>
    /\ audio_path' = <<>>
    /\ total_duration' = <<calculate_total_duration(<<>>, image_inputs',
                                                    start_margin, end_margin)>>
    /\ probes' = probes \o ProbesOk(ProbeOrder(<<>>, image_inputs'))
    /\ pc' = "fed_back"
    /\ UNCHANGED <<output_path, frame>>
    /\ UNCHANGED <<bg_music_path, start_margin, end_margin, segs, graph, files,
                   commands, audio_ensured, main_vars>>

NextDuration ==
    \/ CalculateTotalDuration
    \/ CalculateTotalDurationFail
    \/ FeedBack

SpecDuration == InitDuration /\ [][NextDuration]_vars

----------------------------------------------------------------------------
(* Helper functions examined on their own leave the engine where it is     *)

engine_vars == <<image_inputs, audio_path, bg_music_path, start_margin, end_margin,
                 pc, total_duration, segs, graph, files, nocleanup, commands,
                 audio_ensured, printed, exit_status, validated, probes, output_path>>

\* no generate_video call is under way
EngineIdle ==
    /\ image_inputs = <<>> /\ audio_path = <<>> /\ bg_music_path = <<>>
    /\ start_margin = 0 /\ end_margin = 0 /\ nocleanup = FALSE
    /\ total_duration = <<>> /\ segs = <<>> /\ graph = EmptyGraph /\ files = {}
    /\ commands = <<>> /\ audio_ensured = {} /\ printed = {} /\ exit_status = <<>>
    /\ validated = <<>> /\ probes = <<>> /\ output_path = DefaultOutput

----------------------------------------------------------------------------
(* Two invocations of main at the same time.  Each has its own working     *)
(* directory and position; the file system is shared.  disk maps a path    *)
(* <<working directory, file name>> of a temp_assets folder to the         *)
(* invocation that wrote the file last (0: no such file), folders is the   *)
(* set of working directories whose temp_assets folder exists, interfered  *)
(* records every access of an invocation to a file the other one wrote.    *)

Invocations == {1, 2}

WorkingDirs == {"/work", "/other"}

SequenceFiles == {"temp_video_sequence.mkv", "temp_audio_sequence.wav"}

\* temp_folder of invocation i: Path("temp_assets") below its working directory
TempFolder(i) == frame.cwd[i]

TempPath(i, name) == <<TempFolder(i), name>>

\* what an access of invocation i to the files named adds to interfered
Interference(i, op, names) ==
    {[by |-> i, op |-> op, name |-> n] :
        n \in {m \in names : frame.disk[TempPath(i, m)] \notin {0, i}}}

InitConcurrent ==
    /\ \E c \in [Invocations -> WorkingDirs] :
          frame = [cwd |-> c,
                   at |-> [i \in Invocations |-> "start"],
                   disk |-> [p \in WorkingDirs \X SequenceFiles |-> 0],
                   folders |-> {},
                   interfered |-> {}]
    /\ pc = "concurrent"
    /\ EngineIdle

\* main: TEMP_ASSETS_FOLDER.mkdir(exist_ok=True)
MakeTempFolder(i) ==
    /\ frame.at[i] = "start"
    /\ frame' = [frame EXCEPT !.folders = @ \cup {TempFolder(i)},
                              !.at[i] = "video_cmd"]
    /\ UNCHANGED engine_vars

\* ffmpeg -y writes the file named into the temp folder of invocation i, or
\* fails because the folder is gone
WriteSequence(i, stage, name, next) ==
    /\ frame.at[i] = stage
    /\ frame' = IF TempFolder(i) \in frame.folders
                THEN [frame EXCEPT !.disk[TempPath(i, name)] = i,
                                   !.interfered = @ \cup Interference(i, "overwrite", {name}),
                                   !.at[i] = next]
                ELSE [frame EXCEPT !.at[i] = "raised"]
    /\ UNCHANGED engine_vars

EncodeVideoSequence(i) ==
    WriteSequence(i, "video_cmd", "temp_video_sequence.mkv", "audio_cmd")

EncodeAudioSequence(i) ==
    WriteSequence(i, "audio_cmd", "temp_audio_sequence.wav", "final")

\* the final command reads the two sequences from the temp folder; it fails
\* when one of them is not there
RenderFinal(i) ==
    /\ frame.at[i] = "final"
    /\ frame' = IF \A n \in SequenceFiles : frame.disk[TempPath(i, n)] # 0
                THEN [frame EXCEPT !.interfered = @ \cup Interference(i, "read", SequenceFiles),
                                   !.at[i] = "remove"]
                ELSE [frame EXCEPT !.at[i] = "raised"]
    /\ UNCHANGED engine_vars

\* os.remove(visual_sequence); os.remove(audio_sequence): the first file
\* that is missing raises FileNotFoundError
RemoveSequences(i) ==
    /\ frame.at[i] = "remove"
    /\ LET video == TempPath(i, "temp_video_sequence.mkv")
           audio == TempPath(i, "temp_audio_sequence.wav")
       IN  frame' =
             IF frame.disk[video] = 0 THEN [frame EXCEPT !.at[i] = "raised"]
             ELSE IF frame.disk[audio] = 0
             THEN [frame EXCEPT !.disk[video] = 0,
                                !.interfered = @ \cup Interference(i, "delete",
                                                                   {"temp_video_sequence.mkv"}),
                                !.at[i] = "raised"]
             ELSE [frame EXCEPT !.disk[video] = 0, !.disk[audio] = 0,
                                !.interfered = @ \cup Interference(i, "delete", SequenceFiles),
                                !.at[i] = "cleanup"]
    /\ UNCHANGED engine_vars

\* main: every file of the temp folder is unlinked and the folder removed
CleanTempFolder(i) ==
    /\ frame.at[i] = "cleanup"
    /\ frame' = IF TempFolder(i) \in frame.folders
                THEN [frame EXCEPT
                        !.disk = [p \in DOMAIN @ |-> IF p[1] = TempFolder(i) THEN 0 ELSE @[p]],
                        !.interfered = @ \cup Interference(i, "delete", SequenceFiles),
                        !.folders = @ \ {TempFolder(i)},
                        !.at[i] = "exit"]
                ELSE [frame EXCEPT !.at[i] = "exit"]
    /\ UNCHANGED engine_vars

\* main: the except branch of invocation i
ExitOnError(i) ==
    /\ frame.at[i] = "raised"
    /\ frame' = [frame EXCEPT !.at[i] = "exit"]
    /\ UNCHANGED engine_vars

NextConcurrent ==
    \E i \in Invocations :
        \/ MakeTempFolder(i)
        \/ EncodeVideoSequence(i)
        \/ EncodeAudioSequence(i)
        \/ RenderFinal(i)
        \/ RemoveSequences(i)
        \/ CleanTempFolder(i)
        \/ ExitOnError(i)

SpecConcurrent == InitConcurrent /\ [][NextConcurrent]_vars

----------------------------------------------------------------------------
(* imagevideo.create_visual_sequence on its own.  A file name is a         *)
(* sequence of tokens: a token is a run of characters that                  *)
(* sanitize_filename keeps (letters, digits, dots), one underscore, or one  *)
(* character that it replaces.  An input is a record of its directory, its  *)
(* base name, whether is_video finds video packets in it, and the duration  *)
(* ffprobe reports.  A duration that results from a division is the         *)
(* fraction num/den, so that the arithmetic stays exact.                    *)

MaxParts == 3

\* the files the inputs of a call are taken from
PartLibrary ==
    {[dir |-> "a", name |-> <<"x", ".png">>, video |-> FALSE, dur |-> 0],
     [dir |-> "b", name |-> <<"x", ".png">>, video |-> FALSE, dur |-> 0],
     [dir |-> "a", name |-> <<"y", ".png">>, video |-> FALSE, dur |-> 0],
     [dir |-> "a", name |-> <<"clip", ".mp4">>, video |-> TRUE, dur |-> Seconds(3)],
     [dir |-> "b", name |-> <<"clip", ".mp4">>, video |-> TRUE, dur |-> Seconds(10)],
     [dir |-> "a", name |-> <<"clip", "#", ".mp4">>, video |-> TRUE, dur |-> Seconds(4)],
     [dir |-> "a", name |-> <<"clip", "_", ".mp4">>, video |-> TRUE, dur |-> Seconds(30)]}

PartInputLists == UNION {[1..n -> PartLibrary] : n \in 1..MaxParts}

PartTotals == {Seconds(5), Seconds(12), Seconds(20)}

\* the characters sanitize_filename replaces by an underscore
ReplacedTokens == {"#"}

RECURSIVE CollapseUnderscores(_)
CollapseUnderscores(name) ==
    IF Len(name) < 2 THEN name
    ELSE IF name[1] = "_" /\ name[2] = "_" THEN CollapseUnderscores(Tail(name))
    ELSE <<name[1]>> \o CollapseUnderscores(Tail(name))

RECURSIVE StripLeading(_)
StripLeading(name) ==
    IF name # <<>> /\ Head(name) = "_" THEN StripLeading(Tail(name)) ELSE name

RECURSIVE StripTrailing(_)
StripTrailing(name) ==
    IF name # <<>> /\ name[Len(name)] = "_"
    THEN StripTrailing(SubSeq(name, 1, Len(name) - 1))
    ELSE name

sanitize_filename(name) ==
    LET replaced == [k \in 1..Len(name) |->
                        IF name[k] \in ReplacedTokens THEN "_" ELSE name[k]]
    IN  StripTrailing(StripLeading(CollapseUnderscores(replaced)))

\* os.path.join(TEMP_ASSETS_FOLDER, sanitize_filename(f"temp_{basename}.mp4"))
PartPath(f) ==
    [dir |-> "temp_assets",
     name |-> sanitize_filename(<<"temp", "_">> \o f.name \o <<".mp4">>)]

\* imagevideo.is_video: the count of video packets ffprobe finds
has_video_packets(f) == f.video

\* imagevideo.get_media_duration
part_media_duration(f) == IF ~has_video_packets(f) THEN ImageDuration ELSE f.dur

RECURSIVE SumPartDurations(_)
SumPartDurations(inputs) ==
    IF inputs = <<>> THEN 0
    ELSE part_media_duration(Head(inputs)) + SumPartDurations(Tail(inputs))

\* ffmpeg -loop 1 -i image -t duration temp_output
create_image_part(image, num, den) ==
    [path |-> PartPath(image), input |-> image, num |-> num, den |-> den]

\* ffmpeg -i video -t duration temp_output: the part is no longer than the
\* video itself
create_video_part(video, duration) ==
    [path |-> PartPath(video), input |-> video,
     num |-> Min(duration, video.dur), den |-> 1]

\* the loop over the videos, from video_start_time on
RECURSIVE VideoParts(_, _, _)
VideoParts(videos, video_start_time, total) ==
    IF videos = <<>> THEN <<>>
    ELSE LET video_duration == Min(part_media_duration(Head(videos)),
                                   total - video_start_time)
         IN  <<create_video_part(Head(videos), video_duration)>>
             \o VideoParts(Tail(videos), video_start_time + video_duration, total)

\* the parts in the order they are written; temp_video_parts is the list
\* of their paths
create_visual_sequence(inputs, total) ==
    LET video_inputs == SelectSeq(inputs, LAMBDA f : has_video_packets(f))
        image_inputs_ == SelectSeq(inputs, LAMBDA f : ~has_video_packets(f))
        total_video_duration == SumPartDurations(video_inputs)
        image_duration == Max(0, total - total_video_duration)
        image_parts ==
            IF image_inputs_ # <<>> /\ image_duration > 0
            THEN [k \in 1..Len(image_inputs_) |->
                     create_image_part(image_inputs_[k], image_duration, Len(image_inputs_))]
            ELSE <<>>
    IN  image_parts \o VideoParts(video_inputs, image_duration, total)

InitParts ==
    /\ \E inputs \in PartInputLists, total \in PartTotals :
          frame = [inputs |-> inputs, total_duration |-> total, written |-> <<>>,
                   temp_video_parts |-> <<>>]
    /\ pc = "create_visual_sequence"
    /\ EngineIdle

CreateVisualSequence ==
    /\ pc = "create_visual_sequence"
    /\ LET parts == create_visual_sequence(frame.inputs, frame.total_duration)
       IN  frame' = [frame EXCEPT
                       !.written = parts,
                       !.temp_video_parts = [k \in 1..Len(parts) |-> parts[k].path]]
    /\ pc' = "parts_returned"
    /\ UNCHANGED <<image_inputs, audio_path, bg_music_path, start_margin, end_margin,
                   total_duration, segs, graph, files, nocleanup, commands,
                   audio_ensured, printed, exit_status, validated, probes, output_path>>

NextParts == CreateVisualSequence

SpecParts == InitParts /\ [][NextParts]_vars

----------------------------------------------------------------------------
(* The file names ensure_video_has_audio writes to: the loop of             *)
(* video_utils.create_visual_sequence over inputs given by directory and    *)
(* base name; packets is the number of audio packets ffprobe counts         *)

EnsureLibrary ==
    {[dir |-> "/work/a", name |-> <<"x", ".png">>, packets |-> 0],
     [dir |-> "/work/b", name |-> <<"x", ".png">>, packets |-> 0],
     [dir |-> "/work/a", name |-> <<"y", ".png">>, packets |-> 0],
     [dir |-> "/work/a", name |-> <<"clip", ".mp4">>, packets |-> 0],
     [dir |-> "/work/b", name |-> <<"clip", ".mp4">>, packets |-> 0],
     [dir |-> "/work/a", name |-> <<"talk", ".mp4">>, packets |-> 215],
     [dir |-> "/work/b", name |-> <<"talk", ".mp4">>, packets |-> 431]}

EnsureInputLists == UNION {[1..n -> EnsureLibrary] : n \in 1..MaxInputs}

\* os.path.join(temp_folder, f"audio_ensured_{os.path.basename(input_path)}")
EnsuredPath(f) ==
    [dir |-> "temp_assets", name |-> <<"audio_ensured", "_">> \o f.name]

InitEnsure ==
    /\ \E inputs \in EnsureInputLists :
          frame = [processed_inputs |-> inputs, inputs |-> <<>>, written |-> <<>>]
    /\ pc = "ensure"
    /\ EngineIdle

\* one call of ensure_video_has_audio from the loop: an input with audio
\* packets is returned as it is, any other is copied with a silent track to
\* its output path, which is returned
EnsureVideoHasAudio ==
    /\ pc = "ensure"
    /\ Len(frame.inputs) < Len(frame.processed_inputs)
    /\ LET input_path == frame.processed_inputs[Len(frame.inputs) + 1]
           output_path_ == EnsuredPath(input_path)
       IN  frame' =
             IF input_path.packets > 0
             THEN [frame EXCEPT !.inputs = Append(@, [dir |-> input_path.dir,
                                                      name |-> input_path.name])]
             ELSE [frame EXCEPT
                     !.inputs = Append(@, output_path_),
                     !.written = Append(@, [path |-> output_path_, input |-> input_path])]
    /\ UNCHANGED engine_vars

\* the loop is over: the sequence commands come next
EnsureDone ==
    /\ pc = "ensure"
    /\ Len(frame.inputs) = Len(frame.processed_inputs)
    /\ pc' = "ensured"
    /\ UNCHANGED <<image_inputs, audio_path, bg_music_path, start_margin, end_margin,
                   total_duration, segs, graph, files, nocleanup, commands,
                   audio_ensured, printed, exit_status, validated, probes, output_path,
                   frame>>

NextEnsure ==
    \/ EnsureVideoHasAudio
    \/ EnsureDone

SpecEnsure == InitEnsure /\ [][NextEnsure]_vars

----------------------------------------------------------------------------
(* tts_utils.split_text_into_chunks on its own.  A text is a sequence of   *)
(* characters: a letter, a space, a full stop or a line feed.              *)

MaxTextLen == 4

Characters == {"a", " ", ".", "\n"}

Texts == UNION {[1..n -> Characters] : n \in 0..MaxTextLen}

\* values of max_chunk_size small enough for texts of this length to exceed
ChunkSizes == {2, 3}

\* str.split(sep) for a separator of one character
RECURSIVE Split(_, _)
Split(str, sep) ==
    IF \A i \in 1..Len(str) : str[i] # sep THEN <<str>>
    ELSE LET i == CHOOSE i \in 1..Len(str) :
                     str[i] = sep /\ \A j \in 1..(i - 1) : str[j] # sep
         IN  <<SubSeq(str, 1, i - 1)>> \o Split(SubSeq(str, i + 1, Len(str)), sep)

\* re.split(r'(?<=[.?!])\s+', line): the separators are the runs of
\* whitespace that follow a full stop
RECURSIVE SplitSentences(_)
SplitSentences(line) ==
    LET starts == {i \in 2..Len(line) : line[i] = " " /\ line[i - 1] = "."}
    IN  IF starts = {} THEN <<line>>
        ELSE LET i == CHOOSE i \in starts : \A j \in starts : i <= j
                 rest == {j \in i..Len(line) : line[j] # " "}
                 next == IF rest = {} THEN Len(line) + 1
                         ELSE CHOOSE j \in rest : \A k \in rest : j <= k
             IN  <<SubSeq(line, 1, i - 1)>>
                 \o SplitSentences(SubSeq(line, next, Len(line)))

\* ' '.join(pieces)
RECURSIVE Join(_)
Join(pieces) ==
    IF pieces = <<>> THEN <<>>
    ELSE IF Len(pieces) = 1 THEN pieces[1]
    ELSE pieces[1] \o <<" ">> \o Join(Tail(pieces))

\* the test every branch makes for a line, a sentence or a word: start a
\* new chunk with it when it does not fit into the current one
AddPiece(state, piece, max_chunk_size) ==
    IF Len(Join(Append(state.current_chunk, piece))) > max_chunk_size
    THEN [chunks |-> Append(state.chunks, Join(state.current_chunk)),
          current_chunk |-> <<piece>>]
    ELSE [chunks |-> state.chunks,
          current_chunk |-> Append(state.current_chunk, piece)]

RECURSIVE AddWords(_, _, _)
AddWords(state, words, max_chunk_size) ==
    IF words = <<>> THEN state
    ELSE AddWords(AddPiece(state, Head(words), max_chunk_size), Tail(words),
                  max_chunk_size)

RECURSIVE AddSentences(_, _, _)
AddSentences(state, sentences, max_chunk_size) ==
    IF sentences = <<>> THEN state
    ELSE LET sentence == Head(sentences)
             after == IF Len(sentence) > max_chunk_size
                      THEN AddWords(state, Split(sentence, " "), max_chunk_size)
                      ELSE AddPiece(state, sentence, max_chunk_size)
         IN  AddSentences(after, Tail(sentences), max_chunk_size)

RECURSIVE AddLines(_, _, _)
AddLines(state, lines, max_chunk_size) ==
    IF lines = <<>> THEN state
    ELSE LET line == Head(lines)
             after == IF Len(line) > max_chunk_size
                      THEN AddSentences(state, SplitSentences(line), max_chunk_size)
                      ELSE AddPiece(state, line, max_chunk_size)
         IN  AddLines(after, Tail(lines), max_chunk_size)

split_text_into_chunks(text, max_chunk_size) ==
    LET final == AddLines([chunks |-> <<>>, current_chunk |-> <<>>],
                          Split(text, "\n"), max_chunk_size)
    IN  IF final.current_chunk # <<>>
        THEN Append(final.chunks, Join(final.current_chunk))
        ELSE final.chunks

InitChunks ==
    /\ \E text \in Texts, size \in ChunkSizes :
          frame = [text |-> text, max_chunk_size |-> size, chunks |-> <<>>]
    /\ pc = "split_text_into_chunks"
    /\ EngineIdle

SplitTextIntoChunks ==
    /\ pc = "split_text_into_chunks"
    /\ frame' = [frame EXCEPT
                    !.chunks = split_text_into_chunks(frame.text, frame.max_chunk_size)]
    /\ pc' = "chunked"
    /\ UNCHANGED <<image_inputs, audio_path, bg_music_path, start_margin, end_margin,
                   total_duration, segs, graph, files, nocleanup, commands,
                   audio_ensured, printed, exit_status, validated, probes, output_path>>

NextChunks == SplitTextIntoChunks

SpecChunks == InitChunks /\ [][NextChunks]_vars

----------------------------------------------------------------------------
(* image_utils.generate_image on its own (imagevideo.generate_image has    *)
(* the same loop).  frame.calls is the log of the attempts: the prompt     *)
(* each one sent to the image API, numbered by how often it was            *)
(* regenerated, and how the attempt ended.  frame.result is empty until    *)
(* the function is left, by a return or by an exception.  The argument     *)
(* image_dimensions is a record: a name, or a width and a height.          *)

\* the default of the parameter max_retries
DefaultMaxRetries == 3

\* None, the three names, WIDTHxHEIGHT, and a word that is none of these
ImageDimensions ==
    [name : {"None", "square", "portrait", "landscape", "wide"}, w : {0}, h : {0}]
    \cup [name : {"x"}, w : {1920, 1080, 1200}, h : {1080, 1920}]

\* the size sent to the image API; logger is not defined in image_utils, so
\* the warning for a word that is no name and holds no "x" raises NameError
ImageSize(image_dimensions) ==
    CASE image_dimensions.name = "None" -> "1024x1024"
      [] image_dimensions.name = "square" -> "1024x1024"
      [] image_dimensions.name = "portrait" -> "1024x1792"
      [] image_dimensions.name = "landscape" -> "1792x1024"
      [] image_dimensions.name = "x" ->
            IF 2 * image_dimensions.w > 3 * image_dimensions.h THEN "1792x1024"
            ELSE IF 4 * image_dimensions.w < 3 * image_dimensions.h THEN "1024x1792"
            ELSE "1024x1024"
      [] OTHER -> "NameError"

InitImage ==
    /\ \E m \in 0..DefaultMaxRetries, d \in ImageDimensions :
          frame = [max_retries |-> m, image_dimensions |-> d, size |-> "",
                   attempt |-> 0, prompt |-> 0, calls |-> <<>>,
                   exception |-> "", result |-> <<>>]
    /\ pc = "size"
    /\ EngineIdle

\* the lines before the loop: the size is chosen, or the function is left
\* by the NameError
SelectSize ==
    /\ pc = "size"
    /\ LET size == ImageSize(frame.image_dimensions)
       IN  IF size = "NameError"
           THEN frame' = [frame EXCEPT !.result = <<"raised">>] /\ pc' = "returned"
           ELSE frame' = [frame EXCEPT !.size = size] /\ pc' = "attempt"
    /\ UNCHANGED <<image_inputs, audio_path, bg_music_path, start_margin, end_margin,
                   total_duration, segs, graph, files, nocleanup, commands,
                   audio_ensured, printed, exit_status, validated, probes, output_path>>

\* the attempt under way ends with the outcome given
Outcome(outcome) == [frame.calls EXCEPT ![Len(frame.calls)].outcome = outcome]

\* range(max_retries) is used up without a return: return None
LoopExhausted ==
    /\ pc = "attempt"
    /\ frame.attempt >= frame.max_retries
    /\ frame' = [frame EXCEPT !.result = <<"None">>]
    /\ pc' = "returned"
    /\ UNCHANGED <<image_inputs, audio_path, bg_music_path, start_margin, end_margin,
                   total_duration, segs, graph, files, nocleanup, commands,
                   audio_ensured, printed, exit_status, validated, probes, output_path>>

\* client.images.generate returns the address of an image
ImageApiOk ==
    /\ pc = "attempt"
    /\ frame.attempt < frame.max_retries
    /\ frame' = [frame EXCEPT
                    !.calls = Append(@, [prompt |-> frame.prompt, outcome |-> "pending"])]
    /\ pc' = "download"
    /\ UNCHANGED <<image_inputs, audio_path, bg_music_path, start_margin, end_margin,
                   total_duration, segs, graph, files, nocleanup, commands,
                   audio_ensured, printed, exit_status, validated, probes, output_path>>

\* client.images.generate raises, for a content-policy violation or for
\* anything else
ImageApiFail ==
    /\ pc = "attempt"
    /\ frame.attempt < frame.max_retries
    /\ \E e \in {"content_policy_violation", "error"} :
          frame' = [frame EXCEPT
                      !.calls = Append(@, [prompt |-> frame.prompt, outcome |-> e]),
                      !.exception = e]
    /\ pc' = "except"
    /\ UNCHANGED <<image_inputs, audio_path, bg_music_path, start_margin, end_margin,
                   total_duration, segs, graph, files, nocleanup, commands,
                   audio_ensured, printed, exit_status, validated, probes, output_path>>

\* the image is downloaded and saved: return img_path
SaveImageOk ==
    /\ pc = "download"
    /\ frame' = [frame EXCEPT !.calls = Outcome("ok"), !.result = <<"img_path">>]
    /\ pc' = "returned"
    /\ UNCHANGED <<image_inputs, audio_path, bg_music_path, start_margin, end_margin,
                   total_duration, segs, graph, files, nocleanup, commands,
                   audio_ensured, printed, exit_status, validated, probes, output_path>>

\* requests.get, Image.open or img.save raises
SaveImageFail ==
    /\ pc = "download"
    /\ frame' = [frame EXCEPT !.calls = Outcome("error"), !.exception = "error"]
    /\ pc' = "except"
    /\ UNCHANGED <<image_inputs, audio_path, bg_music_path, start_margin, end_margin,
                   total_duration, segs, graph, files, nocleanup, commands,
                   audio_ensured, printed, exit_status, validated, probes, output_path>>

\* the end of the except block: return None after the last attempt, the
\* next attempt otherwise
EndOfAttempt(prompt) ==
    IF frame.attempt = frame.max_retries - 1
    THEN /\ frame' = [frame EXCEPT !.prompt = prompt, !.exception = "",
                                   !.result = <<"None">>]
         /\ pc' = "returned"
    ELSE /\ frame' = [frame EXCEPT !.prompt = prompt, !.exception = "",
                                   !.attempt = @ + 1]
         /\ pc' = "attempt"

\* except: an error other than a content-policy violation is printed
PrintError ==
    /\ pc = "except"
    /\ frame.exception = "error"
    /\ EndOfAttempt(frame.prompt)
    /\ UNCHANGED <<image_inputs, audio_path, bg_music_path, start_margin, end_margin,
                   total_duration, segs, graph, files, nocleanup, commands,
                   audio_ensured, printed, exit_status, validated, probes, output_path>>

\* except: after a content-policy violation generate_image_prompt returns
\* a new prompt
RegeneratePromptOk ==
    /\ pc = "except"
    /\ frame.exception = "content_policy_violation"
    /\ EndOfAttempt(frame.prompt + 1)
    /\ UNCHANGED <<image_inputs, audio_path, bg_music_path, start_margin, end_margin,
                   total_duration, segs, graph, files, nocleanup, commands,
                   audio_ensured, printed, exit_status, validated, probes, output_path>>

\* except: the chat API call of generate_image_prompt raises; no try
\* encloses it, the exception leaves generate_image
RegeneratePromptFail ==
    /\ pc = "except"
    /\ frame.exception = "content_policy_violation"
    /\ frame' = [frame EXCEPT !.result = <<"raised">>]
    /\ pc' = "returned"
    /\ UNCHANGED <<image_inputs, audio_path, bg_music_path, start_margin, end_margin,
                   total_duration, segs, graph, files, nocleanup, commands,
                   audio_ensured, printed, exit_status, validated, probes, output_path>>

NextImage ==
    \/ SelectSize
    \/ LoopExhausted
    \/ ImageApiOk
    \/ ImageApiFail
    \/ SaveImageOk
    \/ SaveImageFail
    \/ PrintError
    \/ RegeneratePromptOk
    \/ RegeneratePromptFail

SpecImage == InitImage /\ [][NextImage]_vars

----------------------------------------------------------------------------
(* Vocabulary of the properties *)

HasMainAudio == audio_path # <<>>

DurationComputed == total_duration # <<>>

SequenceBuilt == DurationComputed /\ Len(segs) = Len(image_inputs)

GraphBuilt == graph.t # <<>>

Indices == 1..Len(image_inputs)

ImageIndices == {i \in Indices : image_inputs[i].kind = "image"}

VideoIndices == {i \in Indices : image_inputs[i].kind = "video"}

\* every input carries an extension the classifiers know for its kind
AllRecognised ==
    \A i \in Indices :
        \/ image_inputs[i].kind = "image" /\ is_image(image_inputs[i])
        \/ image_inputs[i].kind = "video" /\ is_video(image_inputs[i])

RECURSIVE VideoTotal(_)
VideoTotal(inputs) ==
    IF inputs = <<>> THEN 0
    ELSE (IF Head(inputs).kind = "video" THEN Head(inputs).dur ELSE 0)
         + VideoTotal(Tail(inputs))

\* the time input i is on screen in a track, and how many pieces show it
RECURSIVE ShareOf(_, _)
ShareOf(track, i) ==
    IF track = <<>> THEN 0
    ELSE (IF Head(track).src = i THEN Head(track).len ELSE 0) + ShareOf(Tail(track), i)

Showings(track, i) == Cardinality({k \in 1..Len(track) : track[k].src = i})

Sequence == SequencePieces(segs, image_inputs)

Track == VisualTrack(graph, segs, image_inputs)

BgTrack == BackgroundTrack(graph, bg_music_path, audio_path, segs, image_inputs)

\* generate_video returned True to main
ReturnedTrue == pc \in {"done", "cleanup"} \/ (pc = "exit" /\ exit_status = <<0>>)

SuccessReported == "Video created successfully" \in printed

\* some encoder command of this invocation exited with a non-zero status
CommandFailed == \E k \in 1..Len(commands) : commands[k].rc \notin {<<>>, <<0>>}

RunningCommands == {k \in 1..Len(commands) : commands[k].rc = <<>>}

Started(cmd) == \E k \in 1..Len(commands) : commands[k].cmd = cmd

\* the place of a command in the order of the stages
StageOf(cmd) ==
    CASE cmd = "convert_m4a" -> 0
      [] cmd = "ensure_audio" -> 1
      [] cmd = "video_cmd" -> 2
      [] cmd = "audio_cmd" -> 3
      [] cmd = "final_cmd" -> 4

\* the intermediate files an invocation leaves in the temp folder
IntermediateFiles ==
    (files \cap {"temp_video_sequence.mkv", "temp_audio_sequence.wav", "converted_audio.wav"})
    \cup {<<"audio_ensured", i>> : i \in audio_ensured}

\* an output has an audio stream when the probe finds audio packets in it
HasAudioStream(output) == output.audio_packets # <<>> /\ output.audio_packets[1] > 0

\* the least whole number of b's that is not less than a, for b > 0
Ceil(a, b) == (a + b - 1) \div b

\* the file at a path once every part is written: what was written there last
FileAt(path) ==
    LET ks == {k \in 1..Len(frame.written) : frame.written[k].path = path}
    IN  frame.written[CHOOSE k \in ks : \A j \in ks : j <= k]

PartImages == SelectSeq(frame.inputs, LAMBDA f : ~has_video_packets(f))

PartVideos == SelectSeq(frame.inputs, LAMBDA f : has_video_packets(f))

PartVideoTotal == SumPartDurations(PartVideos)

\* the sum of the durations of parts 1..n, in units of 1/den microseconds
RECURSIVE PartsLength(_, _)
PartsLength(n, den) ==
    IF n = 0 THEN 0
    ELSE LET part == FileAt(frame.temp_video_parts[n])
         IN  PartsLength(n - 1, den) + part.num * (den \div part.den)

----------------------------------------------------------------------------
(* C1: whenever a main audio path is given, the total duration is the main *)
(* audio's duration plus start_margin plus end_margin, whatever the visual *)
(* inputs are.                                                             *)
C1_TotalIsAudioPlusMargins ==
    (DurationComputed /\ HasMainAudio) =>
        total_duration[1] = audio_path[1].dur + start_margin + end_margin

C3_SequenceFillsTotal ==
    (SequenceBuilt /\ ~HasMainAudio /\ AllRecognised) =>
        TrackLength(Sequence) = total_duration[1]

(* C4: with main audio and a single video as the only visual input the     *)
(* visual track lasts exactly total_duration: a video shorter than that is *)
(* repeated from its start until it is filled, a longer one is cut there.  *)
C4_SingleVideoFillsTotal ==
    (GraphBuilt /\ HasMainAudio /\ Len(image_inputs) = 1
                /\ image_inputs[1].kind = "video" /\ AllRecognised) =>
        LET video == image_inputs[1]
            total == total_duration[1]
        IN  /\ TrackLength(Track) = total
            /\ Track = IF video.dur < total
                       THEN LoopTrack(<<[src |-> 1, len |-> video.dur]>>, total)
                       ELSE <<[src |-> 1, len |-> total]>>

(* C5: images only (two or more, no video): each image is displayed        *)
(* exactly once for totalDuration / N and the sequence is not looped, with *)
(* main audio and without.                                                 *)
C5_ImagesShareEqually ==
    (GraphBuilt /\ Len(image_inputs) >= 2 /\ AllRecognised
                /\ ImageIndices = Indices) =>
        /\ Len(Track) = Len(image_inputs)
        /\ \A k \in 1..Len(Track) :
              /\ Track[k].src = k
              /\ Track[k].len * Len(image_inputs) = total_duration[1]

(* C6: mixed images and videos with main audio, video total less than      *)
(* totalDuration: every video plays exactly once at full length, the       *)
(* remaining time is divided equally among the images, and the last piece  *)
(* ends exactly at totalDuration.                                          *)
C6_VideosOnceImagesFillRest ==
    (GraphBuilt /\ HasMainAudio /\ AllRecognised
                /\ ImageIndices # {} /\ VideoIndices # {}
                /\ VideoTotal(image_inputs) < total_duration[1]) =>
        /\ TrackLength(Track) = total_duration[1]
        /\ \A i \in VideoIndices :
              Showings(Track, i) = 1 /\ ShareOf(Track, i) = image_inputs[i].dur
        /\ \A i \in ImageIndices :
              ShareOf(Track, i) * Cardinality(ImageIndices)
                  = total_duration[1] - VideoTotal(image_inputs)

(* C7: mixed images and videos, video total greater than or equal to       *)
(* totalDuration: every input appears in the visual sequence and gets the  *)
(* same share totalDuration / (number of inputs).                          *)
C7_EqualSharesWhenVideosOverflow ==
    (GraphBuilt /\ AllRecognised
                /\ ImageIndices # {} /\ VideoIndices # {}
                /\ VideoTotal(image_inputs) >= total_duration[1]) =>
        \A i \in Indices :
            /\ Showings(Track, i) >= 1
            /\ ShareOf(Track, i) * Len(image_inputs) = total_duration[1]

(* C8: images never loop: no image is shown more than once in the final    *)
(* visual track, and the sequence is repeated only when every visual input *)
(* is a video.                                                             *)
C8_ImagesNeverLoop ==
    (GraphBuilt /\ AllRecognised) =>
        /\ \A i \in ImageIndices : Showings(Track, i) <= 1
        /\ (\E i \in Indices : Showings(Track, i) > 1) => VideoIndices = Indices

(* C9: with main audio the main track is delayed by start_margin (emitted  *)
(* in milliseconds on both channels) and padded with end_margin of         *)
(* silence, so it spans start_margin + audio duration + end_margin, which  *)
(* is total_duration.                                                      *)
C9_MainTrackSpansTotal ==
    (GraphBuilt /\ HasMainAudio) =>
        /\ Len(graph.adelay) = 2
        /\ graph.adelay[1] * 1000 = start_margin
        /\ graph.adelay[2] * 1000 = start_margin
        /\ graph.apad = <<end_margin>>
        /\ graph.adelay[1] * 1000 + audio_path[1].dur + graph.apad[1] = total_duration[1]

(* C10: with main audio the video fade-out and the audio fade-out both     *)
(* start at total_duration - end_margin and last end_margin; that start is *)
(* start_margin + main audio duration and is never negative.               *)
C10_FadeWindow ==
    (GraphBuilt /\ HasMainAudio) =>
        /\ graph.vfade = <<total_duration[1] - end_margin, end_margin>>
        /\ graph.afade = <<total_duration[1] - end_margin, end_margin>>
        /\ graph.vfade[1] = start_margin + audio_path[1].dur
        /\ graph.vfade[1] >= 0
        /\ graph.vfade[1] + graph.vfade[2] = total_duration[1]

(* C11: with no main audio, no background music and images only, the final  *)
(* render has no audio stream: no audio sequence is built for it and no     *)
(* audio is mapped into the output.                                         *)
C11_NoAudioForImagesOnly ==
    (GraphBuilt /\ ~HasMainAudio /\ bg_music_path = <<>>
                /\ ImageIndices = Indices /\ AllRecognised) =>
        /\ "[faded_audio]" \notin {graph.map[k] : k \in 1..Len(graph.map)}
        /\ \A k \in 1..Len(commands) : commands[k].cmd # "audio_cmd"

(* C12: background music is repeated n = ceil(totalDuration / bgDuration)   *)
(* times, and this n is the least number of repetitions whose combined      *)
(* length n * bgDuration covers totalDuration.                              *)
C12_BackgroundRepetitions ==
    (GraphBuilt /\ bg_music_path # <<>> /\ AllRecognised) =>
        LET n == Len(BgTrack)
            bgDuration == bg_music_path[1].dur
        IN  /\ n = Ceil(total_duration[1], bgDuration)
            /\ n * bgDuration >= total_duration[1]
            /\ \A m \in 0..(n - 1) : m * bgDuration < total_duration[1]

(* C13: validate_video accepts an output exactly when its probed duration   *)
(* is within 0.5 seconds of the expected duration and an audio stream is    *)
(* present if and only if audio was expected (has_audio).                   *)
C13_ValidationAccepts ==
    \A k \in 1..Len(validated) :
        LET call == validated[k]
        IN  call.result # "pending" =>
                (call.result = "True" <=>
                    /\ Abs(call.output.duration - call.expected_duration) <= Seconds(1) \div 2
                    /\ (HasAudioStream(call.output) <=> call.has_audio))

(* C14: a render is reported successful (generate_video returns True and    *)
(* main prints 'Video created successfully') only after the output file has *)
(* been validated for duration and audio-stream presence.                   *)
C14_SuccessOnlyAfterValidation ==
    (ReturnedTrue \/ SuccessReported) =>
        \E k \in 1..Len(validated) : validated[k].result # "pending"

(* C15: if any encoder command exits with a non-zero status,                *)
(* run_ffmpeg_command raises: the failed command is the last one started,   *)
(* generate_video does not return True, main prints no success message and  *)
(* exits with status 1.                                                     *)
C15_FailureIsFatal ==
    CommandFailed =>
        /\ commands[Len(commands)].rc \notin {<<>>, <<0>>}
        /\ \A k \in 1..(Len(commands) - 1) : commands[k].rc = <<0>>
        /\ pc \in {"raised", "exit"}
        /\ ~ReturnedTrue
        /\ ~SuccessReported
        /\ (pc = "exit" => exit_status = <<1>>)

\* the audio command failed after two commands went well, and main has exited
C15_Witness ==
    /\ CommandFailed /\ Len(commands) >= 3
    /\ commands[Len(commands)].cmd = "audio_cmd"
    /\ pc = "exit" /\ exit_status = <<1>>

(* C16: within one generate_video call the stages run strictly in sequence: *)
(* the total duration is computed, then the video-sequence encode, then the *)
(* audio-sequence encode, then the final encode; each encoder process has   *)
(* exited with status 0 before the next one starts and no two of them run   *)
(* at the same time.                                                        *)
C16_StagesInSequence ==
    /\ Cardinality(RunningCommands) <= 1
    /\ \A k \in 1..(Len(commands) - 1) : commands[k].rc = <<0>>
    /\ \A j, k \in 1..Len(commands) :
          j < k => /\ StageOf(commands[j].cmd) <= StageOf(commands[k].cmd)
                   /\ StageOf(commands[k].cmd) >= 2 =>
                          StageOf(commands[j].cmd) < StageOf(commands[k].cmd)
    /\ (Started("ensure_audio") \/ Started("video_cmd")) => DurationComputed
    /\ Started("audio_cmd") => Started("video_cmd")
    /\ Started("final_cmd") => Started("audio_cmd")

\* a whole run: conversion, one command per input, the three encodes
C16_Witness ==
    /\ pc = "done"
    /\ Len(commands) = Len(image_inputs) + 4
    /\ Len(image_inputs) >= 2
    /\ \A k \in 1..Len(commands) : commands[k].rc = <<0>>

(* C17: after main finishes, whether the render succeeded or failed, every  *)
(* intermediate file of the invocation (temp_video_sequence.mkv,            *)
(* temp_audio_sequence.wav, audio_ensured_* and the converted audio) has    *)
(* been deleted, unless --nocleanup was given.                              *)
C17_IntermediatesDeleted ==
    (pc = "exit" /\ ~nocleanup) => IntermediateFiles = {}

(* C18: when an invocation ends with a fatal error (an encoder command      *)
(* fails), no new or partially written file is left at the output path.     *)
C18_NoPartialOutput ==
    (pc = "exit" /\ CommandFailed) => files \cap {"output", "output.partial"} = {}

(* C19: computing the total duration with no primary audio and an empty     *)
(* list of visual inputs is a fatal error: no duration is returned and no   *)
(* render is started.                                                       *)
C19_EmptyInputsAreFatal ==
    (image_inputs = <<>> /\ audio_path = <<>>) =>
        /\ total_duration = <<>>
        /\ pc \in {"duration", "raised"}

(* C20: duration accounting is idempotent: for every total duration T the   *)
(* engine can plan, with or without main audio, feeding a single video of   *)
(* duration T and no primary audio back through calculate_total_duration    *)
(* returns T again.                                                         *)
C20_DurationRoundTrip ==
    (pc = "fed_back") => total_duration[1] = image_inputs[1].dur

(* C21: if probing a video or audio input fails (ffprobe exits non-zero or  *)
(* prints no parsable duration), get_media_duration raises: the probe is    *)
(* not retried and no other probe follows it, the error propagates out of   *)
(* generate_video, the final render is never started and main exits with    *)
(* status 1.                                                                *)
C21_ProbeFailureIsFatal ==
    (\E k \in 1..Len(probes) : ~probes[k].ok) =>
        /\ ~probes[Len(probes)].ok
        /\ \A k \in 1..(Len(probes) - 1) : probes[k].ok
        /\ pc \in {"raised", "exit"}
        /\ ~Started("final_cmd")
        /\ ~ReturnedTrue
        /\ ~SuccessReported
        /\ (pc = "exit" => exit_status = <<1>>)

\* the probe of the second visual input failed while the sequence was being
\* built, after the probes before it went well, and main has exited
C21_Witness ==
    /\ Len(probes) >= 3
    /\ probes[Len(probes)] = [file |-> 2, ok |-> FALSE]
    /\ Len(segs) = 1
    /\ pc = "exit" /\ exit_status = <<1>>

(* C22: temporary-artifact directories are invocation-scoped: two engine    *)
(* invocations that run at the same time use distinct temporary             *)
(* directories, so neither ever overwrites, reads or deletes an             *)
(* intermediate file (such as temp_video_sequence.mkv) of the other.        *)
C22_TempFoldersInvocationScoped ==
    (pc = "concurrent") =>
        /\ (\A i \in Invocations : frame.at[i] \notin {"start", "exit"}) =>
               TempFolder(1) # TempFolder(2)
        /\ frame.interfered = {}

(* C23: imagevideo.create_visual_sequence, when at least one image is       *)
(* present and the videos' total duration is less than total_duration: all  *)
(* images come first, each shown for (total_duration - video total) /       *)
(* (number of images); then every video follows in input order at its full  *)
(* duration, the first starting at total_duration - video total and the     *)
(* last ending exactly at total_duration; the parts' durations sum to       *)
(* total_duration and none is negative.                                     *)
C23_ImagesThenVideos ==
    (pc = "parts_returned" /\ PartImages # <<>>
                           /\ PartVideoTotal < frame.total_duration) =>
        LET parts == frame.temp_video_parts
            n == Len(PartImages)
            total == frame.total_duration
        IN  /\ Len(parts) = n + Len(PartVideos)
            /\ \A k \in 1..n :
                  /\ FileAt(parts[k]).input = PartImages[k]
                  /\ FileAt(parts[k]).num * n = (total - PartVideoTotal) * FileAt(parts[k]).den
            /\ \A k \in 1..Len(PartVideos) :
                  /\ FileAt(parts[n + k]).input = PartVideos[k]
                  /\ FileAt(parts[n + k]).num = PartVideos[k].dur * FileAt(parts[n + k]).den
                  /\ PartsLength(n + k - 1, n) =
                         (total - PartVideoTotal + SumPartDurations(SubSeq(PartVideos, 1, k - 1))) * n
            /\ PartsLength(Len(parts), n) = total * n
            /\ \A k \in 1..Len(parts) : FileAt(parts[k]).num >= 0

(* C24: without main audio, start_margin and end_margin are ignored by      *)
(* generate_video: two renders of the same inputs without main audio that   *)
(* differ only in the margins produce the same total duration and the same  *)
(* final filter graph (no delay, pad or fade derived from the margins).     *)
C24_MarginsIgnoredWithoutAudio ==
    (GraphBuilt /\ ~HasMainAudio) =>
        /\ \A m \in MarginPairs :
              LET other_total == calculate_total_duration(audio_path, image_inputs,
                                                          m[1], m[2])
              IN  /\ other_total = total_duration[1]
                  /\ FinalGraph(audio_path, bg_music_path, other_total, m[1], m[2]) = graph
        /\ graph.adelay = <<>> /\ graph.apad = <<>>
        /\ graph.vfade = <<>> /\ graph.afade = <<>>

(* C25: distinct visual inputs of one invocation are written to distinct    *)
(* intermediate artifact paths: ensure_video_has_audio (and the per-part    *)
(* writers create_image_part / create_video_part) never produce the same    *)
(* output path for two different input files, so no intermediate artifact   *)
(* is overwritten by another input's.                                       *)
C25_DistinctIntermediatePaths ==
    (pc \in {"ensure", "ensured"}) =>
        \A j, k \in 1..Len(frame.written) :
            frame.written[j].input # frame.written[k].input =>
                frame.written[j].path # frame.written[k].path

(* C26: the output path handed to generate_video is never inside the       *)
(* temporary assets folder, so the end-of-run cleanup in main, which        *)
(* deletes every file in that folder, never deletes the rendered output:    *)
(* after a successful run with cleanup the output file still exists.        *)
C26_OutputSurvivesCleanup ==
    /\ (pc # "output") => ~InTempFolder(output_path)
    /\ (pc = "exit" /\ exit_status = <<0>> /\ ~nocleanup) => "output" \in files

(* C27: every element of the visual input list that main passes to         *)
(* generate_video is the path of an acquired file: an input whose image     *)
(* generation or download failed (the helper returned None) is never put    *)
(* in the list, and when no valid input remains the default-image fallback  *)
(* or the exit path is taken instead.                                       *)
C27_InputsAreAcquiredFiles ==
    /\ \A k \in 1..Len(image_inputs) : image_inputs[k] # NoneValue
    /\ (pc = "start") =>
          /\ image_inputs # <<>>
          /\ \A k \in 1..Len(image_inputs) : image_inputs[k].kind \in {"image", "video"}

(* C28: every visual input is classified as exactly one of image or video, *)
(* and the duration calculator and the filter-graph builder agree on it: an *)
(* input given the fixed 5-second image default by get_media_duration is    *)
(* also given the image filter chain by create_visual_sequence, and an      *)
(* input given the video chain is one whose duration was probed.            *)
C28_ClassifiersAgree ==
    SequenceBuilt =>
        \A k \in 1..Len(segs) :
            LET f == image_inputs[segs[k].src]
            IN  /\ is_image(f) # is_video(f)
                /\ ~Probed(f) => segs[k].chain = "image"
                /\ segs[k].chain = "video" =>
                       \E j \in 1..Len(probes) :
                           probes[j].file = segs[k].src /\ probes[j].ok

(* C29: split_text_into_chunks returns, for every non-empty text, only      *)
(* chunks whose length is at least 1 and at most max_chunk_size characters. *)
C29_ChunksWithinSize ==
    (pc = "chunked" /\ frame.text # <<>>) =>
        \A k \in 1..Len(frame.chunks) :
            /\ Len(frame.chunks[k]) >= 1
            /\ Len(frame.chunks[k]) <= frame.max_chunk_size

(* C30: generate_image calls the image API at most max_retries times,      *)
(* returns the saved image path on the first successful attempt without     *)
(* making further attempts, and returns None (without raising) exactly      *)
(* when all max_retries attempts failed; after a content-policy violation   *)
(* the following attempt uses a regenerated prompt.                         *)
C30_BoundedRetries ==
    LET calls == frame.calls
        failed == {k \in 1..Len(calls) : calls[k].outcome \notin {"pending", "ok"}}
    IN  /\ Len(calls) <= frame.max_retries
        /\ \A k \in 1..Len(calls) : calls[k].outcome = "ok" => k = Len(calls)
        /\ (pc = "returned") =>
              /\ frame.result \in {<<"img_path">>, <<"None">>}
              /\ frame.result = <<"img_path">> <=>
                     (calls # <<>> /\ calls[Len(calls)].outcome = "ok")
              /\ frame.result = <<"None">> <=>
                     (Len(calls) = frame.max_retries /\ failed = 1..Len(calls))
        /\ \A k \in 1..(Len(calls) - 1) :
              calls[k].outcome = "content_policy_violation" =>
                  calls[k + 1].prompt = calls[k].prompt + 1

====
